---------------------------- MODULE Spec2Model ----------------------------
(***************************************************************************)
(* A model of the lume image service (lume/rust/src): the codec helpers    *)
(* of helpers.rs, the dispatch operations of api/image_ops.rs and the      *)
(* seam-carving loop of api/imageproc_ops.rs.                              *)
(*                                                                         *)
(* A call is one action (seam carving: one action per loop iteration).     *)
(* An encoded byte buffer is represented by what the image library reads   *)
(* from it: the container signature it guesses, whether the body decodes,  *)
(* and the pixel buffer it decodes to.  The image and imageproc crates are *)
(* modelled by their documented behaviour at the places the code calls     *)
(* them.                                                                   *)
(***************************************************************************)
EXTENDS Integers, Sequences, FiniteSets, TLC

VARIABLES pc, op, input, args, result, trace, cur, prev, iter, seam, energy

vars == <<pc, op, input, args, result, trace, cur, prev, iter, seam, energy>>

(***************************************************************************)
(* Bounds of the model.                                                    *)
(***************************************************************************)
\* most pixels (width * height) of an input image of the dispatch operations
MaxPixels == 4
\* most pixels of an input image of the seam-carving runs
SeamMaxPixels == 6
\* largest small column or row count passed to tile
MaxTile == 2

(***************************************************************************)
(* Pixels and pixel buffers.                                               *)
(***************************************************************************)
Min(a, b) == IF a < b THEN a ELSE b

\* the RGBA pixels input images are drawn from: an opaque black one and a
\* transparent coloured one whose four channels all differ
Palette == { <<0, 0, 0, 255>>, <<255, 128, 64, 0>> }

\* an image::ImageBuffer: px[y][x] is the pixel at column x of row y
MkImage(layout, w, h, px) == [layout |-> layout, w |-> w, h |-> h, px |-> px]

NoImage == MkImage("none", 0, 0, <<>>)

ImagesOfSize(w, h) ==
    { MkImage("Rgba8", w, h, p) : p \in [0 .. h - 1 -> [0 .. w - 1 -> Palette]] }

\* the images of at most n pixels
ImagesUpTo(n) ==
    UNION { ImagesOfSize(d[1], d[2]) :
              d \in { e \in (1 .. n) \X (1 .. n) : e[1] * e[2] <= n } }

(***************************************************************************)
(* helpers.rs: formats, byte buffers, load / detect_format / encode.       *)
(***************************************************************************)
\* the seven container formats format_to_string and string_to_format name
SupportedFormats == { "Png", "Jpeg", "Gif", "WebP", "Bmp", "Tiff", "Ico" }

\* image::ImageFormat has further variants; these stand for them
OtherFormats == { "Pnm", "Tga", "Qoi" }

ImageFormat == SupportedFormats \cup OtherFormats

\* an encoded buffer: sig is the format with_guessed_format finds ("none"
\* when no signature matches), valid whether the body decodes, img the
\* pixel buffer it decodes to
MkBytes(sig, valid, img) == [sig |-> sig, valid |-> valid, img |-> img]

NoBytes == MkBytes("none", FALSE, NoImage)

Ok(v) == [ok |-> TRUE, err |-> "", val |-> v]

Err(e, dflt) == [ok |-> FALSE, err |-> e, val |-> dflt]

\* ImageReader::with_guessed_format().decode(): no format guessed, or a body
\* the decoder rejects, is an error of the image library
load(bytes) ==
    IF bytes.sig = "none" \/ ~bytes.valid
    THEN Err("DecodeError", NoImage)
    ELSE Ok(bytes.img)

detect_format(bytes) ==
    IF bytes.sig = "none"
    THEN Err("FormatUnknownError", "none")
    ELSE Ok(bytes.sig)

\* an encoder that writes PNG whatever format it is handed
encode_always_png(img, format, encOk) ==
    IF encOk THEN Ok(MkBytes("Png", TRUE, img)) ELSE Err("EncodeError", NoBytes)

\* img.write_to(.., format): encOk is whether the library's encoder accepts
\* the buffer for that format.  The bytes written are taken to decode to the
\* buffer that was encoded: the codec's own loss (JPEG quantisation) is not
\* modelled
encode(img, format, encOk) ==
    IF encOk THEN Ok(MkBytes(format, TRUE, img)) ELSE Err("EncodeError", NoBytes)

(***************************************************************************)
(* helpers.rs: format names.  A string is a sequence of characters.        *)
(***************************************************************************)
ToLowerChar(c) ==
    CASE c = "A" -> "a" [] c = "B" -> "b" [] c = "C" -> "c" [] c = "D" -> "d"
      [] c = "E" -> "e" [] c = "F" -> "f" [] c = "G" -> "g" [] c = "H" -> "h"
      [] c = "I" -> "i" [] c = "J" -> "j" [] c = "K" -> "k" [] c = "L" -> "l"
      [] c = "M" -> "m" [] c = "N" -> "n" [] c = "O" -> "o" [] c = "P" -> "p"
      [] c = "Q" -> "q" [] c = "R" -> "r" [] c = "S" -> "s" [] c = "T" -> "t"
      [] c = "U" -> "u" [] c = "V" -> "v" [] c = "W" -> "w" [] c = "X" -> "x"
      [] c = "Y" -> "y" [] c = "Z" -> "z" [] OTHER -> c

to_lowercase(s) == [i \in 1 .. Len(s) |-> ToLowerChar(s[i])]

format_to_string(fmt) ==
    CASE fmt = "Png" -> <<"p", "n", "g">>
      [] fmt = "Jpeg" -> <<"j", "p", "e", "g">>
      [] fmt = "Gif" -> <<"g", "i", "f">>
      [] fmt = "WebP" -> <<"w", "e", "b", "p">>
      [] fmt = "Bmp" -> <<"b", "m", "p">>
      [] fmt = "Tiff" -> <<"t", "i", "f", "f">>
      [] fmt = "Ico" -> <<"i", "c", "o">>
      [] OTHER -> <<"u", "n", "k", "n", "o", "w", "n">>

string_to_format(s) ==
    LET l == to_lowercase(s) IN
    CASE l = <<"p", "n", "g">> -> Ok("Png")
      [] l = <<"j", "p", "e", "g">> \/ l = <<"j", "p", "g">> -> Ok("Jpeg")
      [] l = <<"g", "i", "f">> -> Ok("Gif")
      [] l = <<"w", "e", "b", "p">> -> Ok("WebP")
      [] l = <<"b", "m", "p">> -> Ok("Bmp")
      [] l = <<"t", "i", "f", "f">> \/ l = <<"t", "i", "f">> -> Ok("Tiff")
      [] l = <<"i", "c", "o">> -> Ok("Ico")
      [] OTHER -> Err("UnsupportedFormatError", "none")

(***************************************************************************)
(* image crate: geometry, channel and compositing primitives the           *)
(* operations of image_ops.rs call.                                        *)
(***************************************************************************)
\* DynamicImage::rotate90: pixel (x, y) moves to (h - 1 - y, x)
rotate90(img) ==
    MkImage(img.layout, img.h, img.w,
            [r \in 0 .. img.w - 1 |-> [c \in 0 .. img.h - 1 |-> img.px[img.h - 1 - c][r]]])

\* DynamicImage::rotate180: pixel (x, y) moves to (w - 1 - x, h - 1 - y)
rotate180(img) ==
    MkImage(img.layout, img.w, img.h,
            [r \in 0 .. img.h - 1 |->
                [c \in 0 .. img.w - 1 |-> img.px[img.h - 1 - r][img.w - 1 - c]]])

\* DynamicImage::rotate270: pixel (x, y) moves to (y, w - 1 - x)
rotate270(img) ==
    MkImage(img.layout, img.h, img.w,
            [r \in 0 .. img.w - 1 |-> [c \in 0 .. img.h - 1 |-> img.px[c][img.w - 1 - r]]])

\* a match on degrees itself, not reduced modulo 360
rotate_match_unreduced(img, degrees) ==
    CASE degrees = 90 -> rotate90(img)
      [] degrees = 180 -> rotate180(img)
      [] degrees = 270 -> rotate270(img)
      [] OTHER -> img

\* the match of rotate on degrees % 360
rotate_match(img, degrees) ==
    LET d == degrees % 360 IN
    CASE d = 90 -> rotate90(img)
      [] d = 180 -> rotate180(img)
      [] d = 270 -> rotate270(img)
      [] OTHER -> img

\* a selector wrapped into 0 .. 3 instead of clamped
channel_index_wrapped(channel) == channel % 4

\* channel.min(3): the index extract_channel reads of each RGBA pixel
channel_index(channel) == Min(channel, 3)

\* the loop of extract_channel: a GrayImage holding one channel per pixel
extract_channel_image(img, channel) ==
    MkImage("Luma8", img.w, img.h,
            [y \in 0 .. img.h - 1 |->
                [x \in 0 .. img.w - 1 |-> << img.px[y][x][channel_index(channel) + 1] >>]])

\* Rgba::blend for the alphas of Palette: a transparent pixel leaves the
\* pixel below, an opaque pixel replaces it
blend(below, above) ==
    IF above[4] = 0 THEN below ELSE above

\* image::imageops::overlay(bottom, top, x0, y0): blends top onto bottom
\* where the two overlap
overlay(bottom, top, x0, y0) ==
    MkImage(bottom.layout, bottom.w, bottom.h,
            [y \in 0 .. bottom.h - 1 |->
                [x \in 0 .. bottom.w - 1 |->
                    IF /\ x0 <= x /\ x < x0 + top.w
                       /\ y0 <= y /\ y < y0 + top.h
                    THEN blend(bottom.px[y][x], top.px[y - y0][x - x0])
                    ELSE bottom.px[y][x]]])

\* DynamicImage::new_rgba8(w, h): every channel zero
new_rgba8(w, h) ==
    MkImage("Rgba8", w, h, [y \in 0 .. h - 1 |-> [x \in 0 .. w - 1 |-> <<0, 0, 0, 0>>]])

\* RgbaImage::from_pixel(w, h, pixel)
from_pixel(w, h, pixel) ==
    MkImage("Rgba8", w, h, [y \in 0 .. h - 1 |-> [x \in 0 .. w - 1 |-> pixel]])

\* DynamicImage::crop: crop_dimms clamps the origin to the image and the size
\* to what is left of it; the sub-image is copied out
crop_image(img, x, y, width, height) ==
    LET x0 == Min(x, img.w)
        y0 == Min(y, img.h)
        h == Min(height, img.h - y0)
        w == Min(width, img.w - x0)
    IN  MkImage(img.layout, w, h,
                [j \in 0 .. h - 1 |-> [i \in 0 .. w - 1 |-> img.px[y0 + j][x0 + i]]])

\* image::imageops::FilterType
FilterType == { "Nearest", "Triangle", "CatmullRom", "Gaussian", "Lanczos3" }

\* a match whose `_` arm picks the cheapest filter
filter_type_default_nearest(filter) ==
    LET l == to_lowercase(filter) IN
    CASE l = <<"n", "e", "a", "r", "e", "s", "t">> -> "Nearest"
      [] l = <<"t", "r", "i", "a", "n", "g", "l", "e">>
           \/ l = <<"b", "i", "l", "i", "n", "e", "a", "r">> -> "Triangle"
      [] l = <<"c", "a", "t", "m", "u", "l", "l", "r", "o", "m">>
           \/ l = <<"c", "u", "b", "i", "c">> -> "CatmullRom"
      [] l = <<"g", "a", "u", "s", "s", "i", "a", "n">> -> "Gaussian"
      [] l = <<"l", "a", "n", "c", "z", "o", "s">>
           \/ l = <<"l", "a", "n", "c", "z", "o", "s", "3">> -> "Lanczos3"
      [] OTHER -> "Nearest"

\* the match of resize_with_filter on filter.to_lowercase()
filter_type(filter) ==
    LET l == to_lowercase(filter) IN
    CASE l = <<"n", "e", "a", "r", "e", "s", "t">> -> "Nearest"
      [] l = <<"t", "r", "i", "a", "n", "g", "l", "e">>
           \/ l = <<"b", "i", "l", "i", "n", "e", "a", "r">> -> "Triangle"
      [] l = <<"c", "a", "t", "m", "u", "l", "l", "r", "o", "m">>
           \/ l = <<"c", "u", "b", "i", "c">> -> "CatmullRom"
      [] l = <<"g", "a", "u", "s", "s", "i", "a", "n">> -> "Gaussian"
      [] l = <<"l", "a", "n", "c", "z", "o", "s">>
           \/ l = <<"l", "a", "n", "c", "z", "o", "s", "3">> -> "Lanczos3"
      [] OTHER -> "Lanczos3"

\* DynamicImage::resize_exact(nwidth, nheight, filter): a copy when the size
\* does not change, else a buffer of exactly nwidth x nheight resampled with
\* the filter's kernel.  The resampling arithmetic is not modelled: a
\* resampled pixel is kept as the kernel and the source it was sampled from
resize_exact(img, nwidth, nheight, filter) ==
    IF nwidth = img.w /\ nheight = img.h
    THEN img
    ELSE MkImage(img.layout, nwidth, nheight,
                 [y \in 0 .. nheight - 1 |-> [x \in 0 .. nwidth - 1 |-> <<filter, img.px>>]])

(***************************************************************************)
(* u32 arithmetic of tile.  A u32 is a pair <<high, low>> of 16-bit limbs, *)
(* so that 2^32 is within the model checker's integers.                    *)
(***************************************************************************)
Limb == 65536

U32(n) == << n \div Limb, n % Limb >>

\* the value of a u32 whose high limb is below 2^15
U32Nat(u) == u[1] * Limb + u[2]

\* n * u for a small n: the product's bits above 2^32 (carry) and the u32 it
\* wraps to
MulWide(n, u) ==
    LET lo == n * u[2]
        hi == n * u[1] + (lo \div Limb)
    IN  [carry |-> hi \div Limb, wrapped |-> << hi % Limb, lo % Limb >>]

(***************************************************************************)
(* The per-iteration steps of seam_carve_width (imageproc_ops.rs 302-311)  *)
(* and the image / imageproc functions they call.                          *)
(***************************************************************************)
\* DynamicImage::to_luma8 of an RGBA buffer: the integer Rec. 709 weights of
\* the image crate, alpha dropped
to_luma8(img) ==
    MkImage("Luma8", img.w, img.h,
            [y \in 0 .. img.h - 1 |->
                [x \in 0 .. img.w - 1 |->
                    LET p == img.px[y][x]
                    IN  << (2126 * p[1] + 7152 * p[2] + 722 * p[3]) \div 10000 >>]])

Clamp(i, n) == IF i < 0 THEN 0 ELSE IF i > n - 1 THEN n - 1 ELSE i

\* the sample a 3x3 kernel reads at (x, y): the image is padded by continuity
Sample(img, x, y) == img.px[Clamp(y, img.h)][Clamp(x, img.w)][1]

\* correlation with HORIZONTAL_SOBEL = [-1 0 1; -2 0 2; -1 0 1]
HorizontalSobel(img, x, y) ==
      (Sample(img, x + 1, y - 1) - Sample(img, x - 1, y - 1))
    + 2 * (Sample(img, x + 1, y) - Sample(img, x - 1, y))
    + (Sample(img, x + 1, y + 1) - Sample(img, x - 1, y + 1))

\* correlation with VERTICAL_SOBEL = [-1 -2 -1; 0 0 0; 1 2 1]
VerticalSobel(img, x, y) ==
      (Sample(img, x - 1, y + 1) - Sample(img, x - 1, y - 1))
    + 2 * (Sample(img, x, y + 1) - Sample(img, x, y - 1))
    + (Sample(img, x + 1, y + 1) - Sample(img, x + 1, y - 1))

RECURSIVE SqrtSearch(_, _, _)
\* lo * lo <= n < hi * hi
SqrtSearch(n, lo, hi) ==
    IF hi - lo <= 1 THEN lo
    ELSE LET mid == (lo + hi) \div 2
         IN  IF mid * mid <= n THEN SqrtSearch(n, mid, hi) ELSE SqrtSearch(n, lo, mid)

\* (dx^2 + dy^2).sqrt() as u16
gradient_magnitude(dx, dy) == SqrtSearch(dx * dx + dy * dy, 0, 2048)

\* imageproc::gradients::sobel_gradients: a Luma<u16> image of gradient
\* magnitudes
sobel_gradients(gray) ==
    MkImage("Luma16", gray.w, gray.h,
            [y \in 0 .. gray.h - 1 |->
                [x \in 0 .. gray.w - 1 |->
                    << gradient_magnitude(HorizontalSobel(gray, x, y),
                                          VerticalSobel(gray, x, y)) >>]])

\* the closure of seam_carve_width: (v >> 8) as u8
energy_from_u16(energy_u16) ==
    MkImage("Luma8", energy_u16.w, energy_u16.h,
            [y \in 0 .. energy_u16.h - 1 |->
                [x \in 0 .. energy_u16.w - 1 |->
                    << (energy_u16.px[y][x][1] \div 256) % 256 >>]])

\* the energy map seam_carve_width computes for a working buffer
energy_map(buffer) == energy_from_u16(sobel_gradients(to_luma8(buffer)))

\* imageproc set_path_energy for row y >= 1, given the cumulated row above
path_energy_row(gradients, above, w, y) ==
    [x \in 0 .. w - 1 |->
        LET m0 == above[x]
            m1 == IF x > 0 THEN Min(above[x], above[x - 1]) ELSE m0
            m2 == IF x < w - 1 THEN Min(m1, above[x + 1]) ELSE m1
        IN  m2 + gradients.px[y][x][1]]

RECURSIVE path_energies(_, _, _)
\* the rows 0 .. y of the cumulated path energies, as a sequence (row r at
\* position r + 1)
path_energies(gradients, y, acc) ==
    IF y = gradients.h THEN acc
    ELSE path_energies(gradients, y + 1,
            Append(acc,
                   IF y = 0
                   THEN [x \in 0 .. gradients.w - 1 |-> gradients.px[0][x][1]]
                   ELSE path_energy_row(gradients, acc[y], gradients.w, y)))

RECURSIVE ArgMinFrom(_, _, _, _)
\* the first column of row holding its least value, scanning from x
ArgMinFrom(row, w, x, best) ==
    IF x = w THEN best
    ELSE ArgMinFrom(row, w, x + 1, IF row[x] < row[best] THEN x ELSE best)

\* a retrace that jumps to the last column of the row above
seam_parent_last_column(above, w, last_x) == w - 1

\* one step of the retrace: the parent of last_x in the row above, the
\* straight one first, then left, then right, each only if strictly smaller
seam_parent(above, w, last_x) ==
    LET x1 == IF last_x > 0 /\ above[last_x - 1] < above[last_x]
              THEN last_x - 1 ELSE last_x
    IN  IF last_x < w - 1 /\ above[last_x + 1] < above[x1] THEN last_x + 1 ELSE x1

RECURSIVE Retrace(_, _, _, _)
\* the seam from the bottom row upwards; y is the row of the last element
Retrace(table, w, y, acc) ==
    IF y = 0 THEN acc
    ELSE Retrace(table, w, y - 1,
                 Append(acc, seam_parent(table[y], w, acc[Len(acc)])))

\* imageproc::seam_carving::find_vertical_seam(image): panics on a width
\* below 2; takes the Sobel gradient map of the image it is given and returns
\* the 8-connected path of least summed gradient, bottom row first
find_vertical_seam(image) ==
    IF image.w < 2
    THEN [panic |-> TRUE, seam |-> <<>>]
    ELSE LET gradients == sobel_gradients(image)
             table == path_energies(gradients, 0, <<>>)
             min_x == ArgMinFrom(table[image.h], image.w, 1, 0)
         IN  [panic |-> FALSE, seam |-> Retrace(table, image.w, image.h - 1, <<min_x>>)]

\* a removal that also takes the column right of the seam's
remove_vertical_seam_two_columns(image, s) ==
    MkImage(image.layout, image.w - 2, image.h,
            [y \in 0 .. image.h - 1 |->
                LET x_seam == s[(image.h - y - 1) + 1]
                IN  [x \in 0 .. image.w - 3 |->
                        IF x < x_seam THEN image.px[y][x] ELSE image.px[y][x + 2]]])

\* a removal that reads the seam top row first
remove_vertical_seam_top_first(image, s) ==
    MkImage(image.layout, image.w - 1, image.h,
            [y \in 0 .. image.h - 1 |->
                LET x_seam == s[y + 1]
                IN  [x \in 0 .. image.w - 2 |->
                        IF x < x_seam THEN image.px[y][x] ELSE image.px[y][x + 1]]])

\* imageproc::seam_carving::remove_vertical_seam: row y loses the pixel at
\* column seam[height - y - 1]
remove_vertical_seam(image, s) ==
    MkImage(image.layout, image.w - 1, image.h,
            [y \in 0 .. image.h - 1 |->
                LET x_seam == s[(image.h - y - 1) + 1]
                IN  [x \in 0 .. image.w - 2 |->
                        IF x < x_seam THEN image.px[y][x] ELSE image.px[y][x + 1]]])

(***************************************************************************)
(* tile (image_ops.rs 241-252).                                            *)
(***************************************************************************)
RECURSIVE stamp_loop(_, _, _, _, _)
\* the two nested loops of tile, row by row: step i stamps column i % cols
\* of row i \div cols
stamp_loop(canvas, img, cols, rows, i) ==
    IF i >= rows * cols THEN canvas
    ELSE LET c == i % cols
             r == i \div cols
             x0 == U32Nat(MulWide(img.w, U32(c)).wrapped)
             y0 == U32Nat(MulWide(img.h, U32(r)).wrapped)
         IN  stamp_loop(overlay(canvas, img, x0, y0), img, cols, rows, i + 1)

\* the canvas tile builds.  w * cols and h * rows are u32 products: a build
\* with overflow checks panics when one overflows, a build without wraps it.
\* No overlay changes a canvas that has no pixels.
tile_canvas(img, cols, rows, overflow_checks) ==
    LET cw == MulWide(img.w, cols)
        ch == MulWide(img.h, rows)
    IN  IF overflow_checks /\ (cw.carry > 0 \/ ch.carry > 0)
        THEN [panic |-> TRUE, img |-> NoImage]
        ELSE LET w == U32Nat(cw.wrapped)
                 h == U32Nat(ch.wrapped)
             IN  [panic |-> FALSE,
                  img |-> IF w = 0 \/ h = 0
                          THEN new_rgba8(w, h)
                          ELSE stamp_loop(new_rgba8(w, h), img,
                                          U32Nat(cols), U32Nat(rows), 0)]

(***************************************************************************)
(* The dispatch operations of image_ops.rs.                                *)
(***************************************************************************)
NoResult == [status |-> "none", err |-> "", bytes |-> NoBytes, value |-> <<>>]

Success(bytes) == [status |-> "ok", err |-> "", bytes |-> bytes, value |-> <<>>]

Value(v) == [status |-> "ok", err |-> "", bytes |-> NoBytes, value |-> v]

Failure(e) == [status |-> "err", err |-> e, bytes |-> NoBytes, value |-> <<>>]

\* a panic unwinds out of the call: no Result value is returned
Panicked == [status |-> "panic", err |-> "", bytes |-> NoBytes, value |-> <<>>]

\* the statement between detect_format and encode of each operation
apply_transform(o, img, a) ==
    CASE o = "rotate" -> [panic |-> FALSE, img |-> rotate_match(img, a.degrees)]
      [] o = "extract_channel" ->
            [panic |-> FALSE, img |-> extract_channel_image(img, a.channel)]
      [] o = "tile" -> tile_canvas(img, a.cols, a.rows, a.overflow_checks)
      [] o = "resize_with_filter" ->
            [panic |-> FALSE,
             img |-> resize_exact(img, a.width, a.height, filter_type(a.filter))]
      [] o = "crop" ->
            [panic |-> FALSE, img |-> crop_image(img, a.x, a.y, a.width, a.height)]

\* the stages with detect_format ahead of load
transform_call_detect_first(o, bytes, a, encOk) ==
    LET f == detect_format(bytes) IN
    IF ~f.ok THEN [result |-> Failure(f.err), trace |-> <<"detect_format">>]
    ELSE
    LET l == load(bytes) IN
    IF ~l.ok THEN [result |-> Failure(l.err), trace |-> <<"detect_format", "load">>]
    ELSE
    LET t == apply_transform(o, l.val, a) IN
    IF t.panic
    THEN [result |-> Panicked, trace |-> <<"detect_format", "load", "transform">>]
    ELSE
    LET e == encode(t.img, f.val, encOk) IN
    [result |-> IF e.ok THEN Success(e.val) ELSE Failure(e.err),
     trace |-> <<"detect_format", "load", "transform", "encode">>]

\* the body shared by rotate, extract_channel and tile: load, detect_format,
\* the transform, encode, each `?` returning the first error
transform_call(o, bytes, a, encOk) ==
    LET l == load(bytes) IN
    IF ~l.ok THEN [result |-> Failure(l.err), trace |-> <<"load">>]
    ELSE
    LET f == detect_format(bytes) IN
    IF ~f.ok THEN [result |-> Failure(f.err), trace |-> <<"load", "detect_format">>]
    ELSE
    LET t == apply_transform(o, l.val, a) IN
    IF t.panic
    THEN [result |-> Panicked, trace |-> <<"load", "detect_format", "transform">>]
    ELSE
    LET e == encode(t.img, f.val, encOk) IN
    [result |-> IF e.ok THEN Success(e.val) ELSE Failure(e.err),
     trace |-> <<"load", "detect_format", "transform", "encode">>]

\* convert_format: load, string_to_format, encode
convert_call(bytes, target_format, encOk) ==
    LET l == load(bytes) IN
    IF ~l.ok THEN [result |-> Failure(l.err), trace |-> <<"load">>]
    ELSE
    LET f == string_to_format(target_format) IN
    IF ~f.ok THEN [result |-> Failure(f.err), trace |-> <<"load", "string_to_format">>]
    ELSE
    LET e == encode(l.val, f.val, encOk) IN
    [result |-> IF e.ok THEN Success(e.val) ELSE Failure(e.err),
     trace |-> <<"load", "string_to_format", "encode">>]

\* get_pixel: ImageBuffer::get_pixel panics outside the image
get_pixel_call(bytes, x, y) ==
    LET l == load(bytes) IN
    IF ~l.ok THEN [result |-> Failure(l.err), trace |-> <<"load">>]
    ELSE IF x >= l.val.w \/ y >= l.val.h
    THEN [result |-> Panicked, trace |-> <<"load", "get_pixel">>]
    ELSE [result |-> Value(l.val.px[y][x]), trace |-> <<"load", "get_pixel">>]

\* create_blank: from_pixel, then encode as PNG; nothing is decoded
create_blank_call(width, height, pixel, encOk) ==
    LET e == encode(from_pixel(width, height, pixel), "Png", encOk) IN
    [result |-> IF e.ok THEN Success(e.val) ELSE Failure(e.err),
     trace |-> <<"transform", "encode">>]

\* ImageReader::into_dimensions: fails when no format was guessed or the
\* format's decoder rejects the header
into_dimensions(bytes) ==
    IF bytes.sig = "none" \/ ~bytes.valid
    THEN Err("DecodeError", <<0, 0>>)
    ELSE Ok(<<bytes.img.w, bytes.img.h>>)

\* get_image_info: the name of the guessed format, "unknown" when there is
\* none, then the dimensions.  size_bytes, the length of the input, is left
\* out: the length of a byte buffer is not represented
get_image_info_call(bytes) ==
    LET format == IF bytes.sig = "none"
                  THEN <<"u", "n", "k", "n", "o", "w", "n">>
                  ELSE format_to_string(bytes.sig)
        d == into_dimensions(bytes)
    IN  IF ~d.ok
        THEN [result |-> Failure(d.err), trace |-> <<"detect_format", "into_dimensions">>]
        ELSE [result |-> Value([width |-> d.val[1], height |-> d.val[2], format |-> format]),
              trace |-> <<"detect_format", "into_dimensions">>]

(***************************************************************************)
(* Inputs.                                                                 *)
(***************************************************************************)
\* the buffers of a set of signatures and images, and one per signature
\* whose body does not decode
BytesOf(sigs, images) ==
    { MkBytes(s, TRUE, i) : s \in sigs, i \in images }
        \cup { MkBytes(s, FALSE, NoImage) : s \in sigs }

DispatchInputs == BytesOf(SupportedFormats \cup {"Pnm", "none"}, ImagesUpTo(MaxPixels))

SeamInputs == BytesOf({"Png", "none"}, ImagesUpTo(SeamMaxPixels))

Degrees == { 0, 45, 90, 180, 270, 360, 450, 630 }

Channels == { 0, 1, 2, 3, 4, 5, 255 }

\* column and row counts: the small ones and 2^31
TileCounts == { U32(n) : n \in 0 .. MaxTile } \cup { <<32768, 0>> }

ToUpperChar(c) ==
    CASE c = "a" -> "A" [] c = "b" -> "B" [] c = "c" -> "C" [] c = "e" -> "E"
      [] c = "f" -> "F" [] c = "g" -> "G" [] c = "i" -> "I" [] c = "j" -> "J"
      [] c = "k" -> "K" [] c = "m" -> "M" [] c = "n" -> "N" [] c = "o" -> "O"
      [] c = "p" -> "P" [] c = "t" -> "T" [] c = "u" -> "U" [] c = "w" -> "W"
      [] OTHER -> c

\* s in every mix of upper and lower case
CaseVariants(s) ==
    { [i \in 1 .. Len(s) |-> IF i \in U THEN ToUpperChar(s[i]) ELSE s[i]] :
        U \in SUBSET (1 .. Len(s)) }

RecognisedNames ==
    { <<"p", "n", "g">>, <<"j", "p", "e", "g">>, <<"j", "p", "g">>, <<"g", "i", "f">>,
      <<"w", "e", "b", "p">>, <<"b", "m", "p">>, <<"t", "i", "f", "f">>,
      <<"t", "i", "f">>, <<"i", "c", "o">> }

OtherNames ==
    { <<>>, <<"u", "n", "k", "n", "o", "w", "n">>, <<"p", "n", "m">>, <<"j", "p", "e">>,
      <<"p", "n", "g", "x">>, <<"t", "g", "a">>, <<" ", "p", "n", "g">>, <<"g", "1", "f">> }

NameInputs == UNION { CaseVariants(s) : s \in RecognisedNames \cup OtherNames }

\* the widths, heights and offsets resize_with_filter, crop and create_blank
\* are called with
Sizes == { 0, 1, 2 }

\* the filter names resize_with_filter is called with: the ten the match
\* names, in several letter cases, and others
FilterNames ==
    { <<"n", "e", "a", "r", "e", "s", "t">>, <<"N", "E", "A", "R", "E", "S", "T">>,
      <<"t", "r", "i", "a", "n", "g", "l", "e">>, <<"B", "i", "l", "i", "n", "e", "a", "r">>,
      <<"c", "a", "t", "m", "u", "l", "l", "r", "o", "m">>, <<"C", "U", "B", "I", "C">>,
      <<"g", "a", "u", "s", "s", "i", "a", "n">>, <<"G", "a", "u", "s", "s", "i", "a", "n">>,
      <<"l", "a", "n", "c", "z", "o", "s">>, <<"L", "a", "n", "c", "z", "o", "s", "3">>,
      <<"l", "a", "n", "c", "z", "o", "s", "3">>,
      <<>>, <<"b", "o", "x">>, <<"l", "a", "n", "c", "z", "o", "s", "2">>,
      <<"n", "e", "a", "r", "e", "s", "t", " ">>, <<"h", "a", "m", "m", "i", "n", "g">> }

\* the target names convert_format is called with
ConvertNames ==
    { <<"p", "n", "g">>, <<"J", "P", "G">>, <<"j", "p", "e", "g">>, <<"T", "i", "f">>,
      <<"u", "n", "k", "n", "o", "w", "n">>, <<"p", "n", "m">> }

(***************************************************************************)
(* State: pc is "idle" between calls, "loop" inside the loop of            *)
(* seam_carve_width and "done" when a call has returned or panicked; op,   *)
(* input and args are the call; result is what the caller gets; trace      *)
(* lists the stages the call ran; cur, prev, iter, seam and energy are     *)
(* locals of the seam-carving loop: the working buffer, and the buffer,    *)
(* energy map and seam of the last iteration that removed a seam.          *)
(***************************************************************************)
Init ==
    /\ pc = "idle"
    /\ op = "none"
    /\ input = NoBytes
    /\ args = <<>>
    /\ result = NoResult
    /\ trace = <<>>
    /\ cur = NoImage
    /\ prev = NoImage
    /\ iter = 0
    /\ seam = <<>>
    /\ energy = NoImage

SeamLocals == <<cur, prev, iter, seam, energy>>

\* a call that runs to its end in one step
Finish(o, bytes, a, r) ==
    /\ pc = "idle"
    /\ pc' = "done"
    /\ op' = o
    /\ input' = bytes
    /\ args' = a
    /\ result' = r.result
    /\ trace' = r.trace
    /\ UNCHANGED SeamLocals

rotate ==
    /\ pc = "idle"
    /\ \E bytes \in DispatchInputs, degrees \in Degrees, encOk \in BOOLEAN :
        LET a == [degrees |-> degrees]
        IN  Finish("rotate", bytes, a, transform_call("rotate", bytes, a, encOk))

extract_channel ==
    /\ pc = "idle"
    /\ \E bytes \in DispatchInputs, channel \in Channels, encOk \in BOOLEAN :
        LET a == [channel |-> channel]
        IN  Finish("extract_channel", bytes, a,
                   transform_call("extract_channel", bytes, a, encOk))

\* a canvas side of 2^16 or more is beyond the model
TileFits(img, cols, rows) ==
    /\ MulWide(img.w, cols).wrapped[1] = 0
    /\ MulWide(img.h, rows).wrapped[1] = 0

tile ==
    /\ pc = "idle"
    /\ \E bytes \in DispatchInputs, cols \in TileCounts, rows \in TileCounts,
       overflow_checks \in BOOLEAN, encOk \in BOOLEAN :
        LET a == [cols |-> cols, rows |-> rows, overflow_checks |-> overflow_checks]
        IN  /\ TileFits(bytes.img, cols, rows)
            /\ Finish("tile", bytes, a, transform_call("tile", bytes, a, encOk))

convert_format ==
    /\ pc = "idle"
    /\ \E bytes \in DispatchInputs, target_format \in ConvertNames, encOk \in BOOLEAN :
        Finish("convert_format", bytes, [target_format |-> target_format],
               convert_call(bytes, target_format, encOk))

get_pixel ==
    /\ pc = "idle"
    /\ \E bytes \in DispatchInputs, x \in 0 .. MaxPixels, y \in 0 .. MaxPixels :
        Finish("get_pixel", bytes, [x |-> x, y |-> y], get_pixel_call(bytes, x, y))

resize_with_filter ==
    /\ pc = "idle"
    /\ \E bytes \in DispatchInputs, width \in Sizes, height \in Sizes,
       filter \in FilterNames, encOk \in BOOLEAN :
        LET a == [width |-> width, height |-> height, filter |-> filter]
        IN  Finish("resize_with_filter", bytes, a,
                   transform_call("resize_with_filter", bytes, a, encOk))

crop ==
    /\ pc = "idle"
    /\ \E bytes \in DispatchInputs, x \in Sizes, y \in Sizes,
       width \in Sizes, height \in Sizes, encOk \in BOOLEAN :
        LET a == [x |-> x, y |-> y, width |-> width, height |-> height]
        IN  Finish("crop", bytes, a, transform_call("crop", bytes, a, encOk))

create_blank ==
    /\ pc = "idle"
    /\ \E width \in Sizes, height \in Sizes, pixel \in Palette, encOk \in BOOLEAN :
        Finish("create_blank", NoBytes,
               [width |-> width, height |-> height, pixel |-> pixel],
               create_blank_call(width, height, pixel, encOk))

get_image_info ==
    /\ pc = "idle"
    /\ \E bytes \in DispatchInputs :
        Finish("get_image_info", bytes, <<>>, get_image_info_call(bytes))

\* a loop count one over: one seam more than the widths differ by
seams_to_remove_one_over(current_width, new_width) == current_width - new_width + 1

\* a loop count one short: the last seam is never removed
seams_to_remove_one_short(current_width, new_width) == current_width - new_width - 1

\* let seams_to_remove = current_width - new_width
seams_to_remove(current_width, new_width) == current_width - new_width

\* seam_carve_width up to its loop (imageproc_ops.rs 292-300)
SeamCarveEnter(bytes, new_width, encOk) ==
    LET l == load(bytes)
        f == detect_format(bytes)
        a == [new_width |-> new_width, fmt |-> f.val, seams_to_remove |-> 0]
    IN  /\ pc = "idle"
        /\ op' = "seam_carve_width"
        /\ input' = bytes
        /\ UNCHANGED <<prev, iter, seam, energy>>
        /\ IF ~l.ok
           THEN /\ pc' = "done"
                /\ result' = Failure(l.err)
                /\ trace' = <<"load">>
                /\ args' = a
                /\ cur' = cur
           ELSE IF ~f.ok
           THEN /\ pc' = "done"
                /\ result' = Failure(f.err)
                /\ trace' = <<"load", "detect_format">>
                /\ args' = a
                /\ cur' = cur
           ELSE IF new_width >= l.val.w
           THEN LET e == encode(l.val, f.val, encOk)
                IN  /\ pc' = "done"
                    /\ result' = IF e.ok THEN Success(e.val) ELSE Failure(e.err)
                    /\ trace' = <<"load", "detect_format", "transform", "encode">>
                    /\ args' = a
                    /\ cur' = cur
           ELSE /\ pc' = "loop"
                /\ result' = NoResult
                /\ trace' = <<"load", "detect_format">>
                /\ args' = [a EXCEPT !.seams_to_remove = seams_to_remove(l.val.w, new_width)]
                /\ cur' = l.val

seam_carve_width ==
    /\ pc = "idle"
    /\ \E bytes \in DispatchInputs, new_width \in 0 .. MaxPixels + 1, encOk \in BOOLEAN :
        SeamCarveEnter(bytes, new_width, encOk)

\* one iteration of the loop (imageproc_ops.rs 301-312)
seam_carve_iteration ==
    /\ pc = "loop"
    /\ iter < args.seams_to_remove
    /\ LET e == energy_map(cur)
           s == find_vertical_seam(e)
       IN  IF s.panic \/ Len(s.seam) # cur.h
           THEN /\ pc' = "done"
                /\ result' = Panicked
                /\ trace' = Append(trace, "transform")
                /\ UNCHANGED <<cur, prev, iter, seam, energy>>
           ELSE /\ cur' = remove_vertical_seam(cur, s.seam)
                /\ prev' = cur
                /\ energy' = e
                /\ seam' = s.seam
                /\ iter' = iter + 1
                /\ UNCHANGED <<pc, result, trace>>
    /\ UNCHANGED <<op, input, args>>

\* the encode after the loop (imageproc_ops.rs 313)
seam_carve_return ==
    /\ pc = "loop"
    /\ iter = args.seams_to_remove
    /\ \E encOk \in BOOLEAN :
          LET e == encode(cur, args.fmt, encOk)
          IN  result' = IF e.ok THEN Success(e.val) ELSE Failure(e.err)
    /\ pc' = "done"
    /\ trace' = trace \o <<"transform", "encode">>
    /\ UNCHANGED <<op, input, args, cur, prev, iter, seam, energy>>

\* the caller takes the result; the next call starts from nothing
Return ==
    /\ pc = "done"
    /\ pc' = "idle"
    /\ op' = "none"
    /\ input' = NoBytes
    /\ args' = <<>>
    /\ result' = NoResult
    /\ trace' = <<>>
    /\ cur' = NoImage
    /\ prev' = NoImage
    /\ iter' = 0
    /\ seam' = <<>>
    /\ energy' = NoImage

Next ==
    \/ rotate
    \/ extract_channel
    \/ tile
    \/ convert_format
    \/ get_pixel
    \/ resize_with_filter
    \/ crop
    \/ create_blank
    \/ get_image_info
    \/ seam_carve_width
    \/ seam_carve_iteration
    \/ seam_carve_return
    \/ Return

Spec == Init /\ [][Next]_vars

(***************************************************************************)
(* Seam carving alone, on the larger images.                               *)
(***************************************************************************)
seam_carve_width_larger ==
    /\ pc = "idle"
    /\ \E bytes \in SeamInputs, new_width \in 0 .. SeamMaxPixels + 1, encOk \in BOOLEAN :
        SeamCarveEnter(bytes, new_width, encOk)

NextSeam ==
    \/ seam_carve_width_larger
    \/ seam_carve_iteration
    \/ seam_carve_return
    \/ Return

SpecSeam == Init /\ [][NextSeam]_vars

(***************************************************************************)
(* The format-name functions alone.                                        *)
(***************************************************************************)
FormatToString ==
    /\ pc = "idle"
    /\ \E fmt \in ImageFormat :
        Finish("format_to_string", NoBytes, [fmt |-> fmt],
               [result |-> Value(format_to_string(fmt)), trace |-> <<>>])

StringToFormat ==
    /\ pc = "idle"
    /\ \E s \in NameInputs :
        LET f == string_to_format(s)
        IN  Finish("string_to_format", NoBytes, [s |-> s],
                   [result |-> IF f.ok THEN Value(f.val) ELSE Failure(f.err),
                    trace |-> <<>>])

NextNames ==
    \/ FormatToString
    \/ StringToFormat
    \/ Return

SpecNames == Init /\ [][NextNames]_vars

(***************************************************************************)
(* Properties of seam_carve_width.                                         *)
(***************************************************************************)
Decodable(bytes) == load(bytes).ok

SeamCarveDone == pc = "done" /\ op = "seam_carve_width" /\ Decodable(input)

\* what the width contract says of a finished call, the encoder permitting
WidthContractHolds ==
    \/ result.status = "err" /\ result.err = "EncodeError"
    \/ /\ result.status = "ok"
       /\ IF args.new_width < input.img.w
          THEN /\ result.bytes.img.w = args.new_width
               /\ result.bytes.img.h = input.img.h
          ELSE result.bytes.img = input.img

\* C1, as stated: for every decodable image and every target width W,
\* seam_carve_width returns an image of width exactly W and unchanged height
\* when W is below the image's width, and the image unchanged otherwise.
C1_WidthContractAnyTarget == SeamCarveDone => WidthContractHolds

\* C1, amended: the same for every target width W >= 1; a target of 0 returns
\* no image.
C1_WidthContract ==
    SeamCarveDone =>
        IF args.new_width >= 1 THEN WidthContractHolds ELSE result.status # "ok"

\* a call that removed two seams of an image two rows high and returned it
C1_Witness ==
    /\ SeamCarveDone
    /\ args.new_width >= 1
    /\ input.img.w = args.new_width + 2
    /\ input.img.h = 2
    /\ iter = 2
    /\ result.status = "ok"
    /\ result.bytes.img.w = args.new_width

\* the top-to-bottom paths of a w x h grid whose columns differ by at most 1
\* between adjacent rows, bottom row first like a seam
Paths(w, h) ==
    { p \in [1 .. h -> 0 .. w - 1] :
        \A i \in 1 .. h - 1 : p[i] - p[i + 1] \in {-1, 0, 1} }

RECURSIVE PathCostFrom(_, _, _)
PathCostFrom(e, p, i) ==
    IF i > e.h THEN 0
    ELSE e.px[e.h - i][p[i]][1] + PathCostFrom(e, p, i + 1)

\* the summed energy of path p on energy map e
PathCost(e, p) == PathCostFrom(e, p, 1)

\* C2: the seam an iteration removes costs, on the energy map computed for
\* that iteration's buffer, no more than any other top-to-bottom path whose
\* columns differ by at most 1 between adjacent rows.
C2_SeamIsMinimal ==
    op = "seam_carve_width" /\ iter > 0 =>
        \A p \in Paths(energy.w, energy.h) : PathCost(energy, seam) <= PathCost(energy, p)

\* C3: seam_carve_width with target width 0 on a decodable image returns an
\* InvalidDimensionError and aborts by no other means.
C3_ZeroTargetIsError ==
    SeamCarveDone /\ args.new_width = 0 =>
        result.status = "err" /\ result.err = "InvalidDimensionError"

\* a call of seam_carve_width that entered its loop
InSeamLoop == op = "seam_carve_width" /\ args.seams_to_remove > 0

\* the loop's bookkeeping: before iteration iter the working buffer is iter
\* columns narrower than the input and as high, and as many iterations are
\* left as it has columns above the target; an iteration that removed a
\* seam made the buffer one column narrower and left its height
LoopBookkeeping ==
    /\ pc = "loop" =>
          /\ cur.w = input.img.w - iter
          /\ cur.h = input.img.h
          /\ args.seams_to_remove - iter = cur.w - args.new_width
    /\ iter > 0 => cur.w = prev.w - 1 /\ cur.h = prev.h

SeamColumn(s, h, y) == s[h - y]

\* C15: an iteration removes the seam from the 4-channel colour buffer: in
\* every row the pixels left of the row's seam column stay in place, the
\* pixel at it is gone and the pixels right of it move one column left with
\* their RGBA values; the buffer that is encoded is that colour buffer, not
\* the luminance copy or the energy map.
C15_SeamRemovedFromColour ==
    op = "seam_carve_width" /\ iter > 0 =>
        /\ prev.layout = "Rgba8"
        /\ cur.layout = "Rgba8"
        /\ energy.layout = "Luma8"
        /\ \A y \in 0 .. prev.h - 1 :
              LET c == SeamColumn(seam, prev.h, y)
              IN  /\ DOMAIN cur.px[y] = 0 .. prev.w - 2
                  /\ \A x \in 0 .. prev.w - 2 :
                        /\ Len(cur.px[y][x]) = 4
                        /\ x < c => cur.px[y][x] = prev.px[y][x]
                        /\ x >= c => cur.px[y][x] = prev.px[y][x + 1]
        /\ pc = "done" /\ result.status = "ok" => result.bytes.img = cur

\* an iteration whose seam changes column between two rows and that moved a
\* pixel differing from the removed one into the seam's column
C15_Witness ==
    /\ op = "seam_carve_width"
    /\ iter > 0
    /\ prev.h = 2
    /\ seam[1] # seam[2]
    /\ \E y \in 0 .. 1 :
          LET c == SeamColumn(seam, 2, y)
          IN  /\ c < prev.w - 1
              /\ prev.px[y][c] # prev.px[y][c + 1]
              /\ cur.px[y][c] = prev.px[y][c + 1]

\* s is a seam of a w x h buffer: h columns, each in 0 .. w - 1, those of
\* adjacent rows at most 1 apart
IsSeam(s, w, h) ==
    /\ Len(s) = h
    /\ \A i \in 1 .. h : s[i] \in 0 .. w - 1
    /\ \A i \in 1 .. h - 1 : s[i] - s[i + 1] \in {-1, 0, 1}

\* C16: every seam an iteration computes on a buffer of current_width x
\* height has exactly height column indices, one per row, each in
\* [0, current_width), those of vertically adjacent rows at most 1 apart:
\* both the seam the next iteration is about to compute and the seam the
\* last iteration removed.
C16_SeamWellFormed ==
    op = "seam_carve_width" =>
        /\ pc = "loop" /\ iter < args.seams_to_remove /\ cur.w >= 2 =>
              LET s == find_vertical_seam(energy_map(cur))
              IN  ~s.panic /\ IsSeam(s.seam, cur.w, cur.h)
        /\ iter > 0 => IsSeam(seam, prev.w, prev.h)

\* a removed seam of three rows that moves both left and right
C16_Witness ==
    /\ op = "seam_carve_width"
    /\ iter > 0
    /\ prev.h = 3
    /\ Len(seam) = 3
    /\ seam[1] # seam[2]
    /\ seam[2] # seam[3]

\* the loop is about to run an iteration, and so a seam search
SearchPending == pc = "loop" /\ iter < args.seams_to_remove

\* C17: with a target width W >= 1 every seam search of seam_carve_width is
\* invoked on a buffer at least 2 columns wide; a search on a 1-column
\* buffer, and the abort it causes, happen only with target width 0, and
\* never is a search invoked on a buffer of no columns.
C17_SearchNeedsTwoColumns ==
    op = "seam_carve_width" =>
        /\ SearchPending => cur.w >= 1
        /\ SearchPending /\ args.new_width >= 1 => cur.w >= 2
        /\ SearchPending /\ cur.w < 2 => args.new_width = 0
        /\ result.status = "panic" => args.new_width = 0 /\ cur.w = 1

\* the last search of a call with target 1: one seam is gone, the buffer is
\* 2 columns wide
C17_Witness ==
    /\ op = "seam_carve_width"
    /\ SearchPending
    /\ args.new_width = 1
    /\ iter >= 1
    /\ iter = args.seams_to_remove - 1
    /\ cur.w = 2

(***************************************************************************)
(* Properties of the dispatch operations.                                  *)
(***************************************************************************)
\* the modelled operations that re-encode in the format of their input
TransformOps ==
    { "rotate", "extract_channel", "tile", "resize_with_filter", "crop", "seam_carve_width" }

TransformDone == pc = "done" /\ op \in TransformOps

\* C4: whenever a transform operation other than convert_format returns
\* bytes for an input of a supported format F, the bytes are encoded in F,
\* the format detected from the operation's own input.
C4_FormatPreserved ==
    TransformDone /\ input.sig \in SupportedFormats /\ result.status = "ok" =>
        /\ result.bytes.sig = detect_format(input).val
        /\ detect_format(result.bytes) = detect_format(input)

\* a tile of a JPEG input that returned bytes
C4_Witness ==
    /\ TransformDone
    /\ op = "tile"
    /\ input.sig = "Jpeg"
    /\ result.status = "ok"
    /\ result.bytes.sig = "Jpeg"
    /\ result.bytes.img.w > input.img.w

IsPrefix(s, t) == Len(s) <= Len(t) /\ s = SubSeq(t, 1, Len(s))

\* the error a failing stage surfaces; a transform fails by panicking
StageFailure(stage) ==
    CASE stage = "load" -> Failure("DecodeError")
      [] stage = "detect_format" -> Failure("FormatUnknownError")
      [] stage = "transform" -> Panicked
      [] stage = "encode" -> Failure("EncodeError")

\* the stages ran in the given order up to the first that failed, the call
\* fails with that stage's error, and bytes are returned only when all ran
StagesRunInOrder(order) ==
    /\ trace # <<>>
    /\ IsPrefix(trace, order)
    /\ IF result.status = "ok"
       THEN trace = order
       ELSE result = StageFailure(trace[Len(trace)]) /\ result.bytes = NoBytes

\* C5, as stated: every transform operation runs detect_format, decode,
\* transform, encode in that order and fails with the error of the first
\* stage that fails, so bytes with no recognisable signature fail with the
\* format-detection error; no bytes are returned when a stage fails.
C5_DetectThenDecode ==
    TransformDone =>
        /\ StagesRunInOrder(<<"detect_format", "load", "transform", "encode">>)
        /\ input.sig = "none" => result = Failure("FormatUnknownError")

\* C5, amended: the order is decode (load), detect_format, transform, encode
\* and the call fails at the first stage that fails in that order, so bytes
\* with no recognisable signature fail with the decode error of load; no
\* bytes are returned when a stage fails.
C5_DecodeThenDetect ==
    TransformDone =>
        /\ StagesRunInOrder(<<"load", "detect_format", "transform", "encode">>)
        /\ input.sig = "none" => result = Failure("DecodeError")
        /\ ~Decodable(input) => trace = <<"load">>

\* a rotate of bytes with no recognisable signature
C5_Witness ==
    /\ TransformDone
    /\ op = "rotate"
    /\ input.sig = "none"
    /\ trace = <<"load">>
    /\ result = Failure("DecodeError")

\* C6: get_pixel on a decodable image returns an OutOfBoundsError when
\* x >= width or y >= height, and the pixel's four channels otherwise.
C6_OutOfBoundsIsError ==
    pc = "done" /\ op = "get_pixel" /\ Decodable(input) =>
        IF args.x >= input.img.w \/ args.y >= input.img.h
        THEN result.status = "err" /\ result.err = "OutOfBoundsError"
        ELSE result.status = "ok" /\ result.value = input.img.px[args.y][args.x]

\* img turned a quarter turn clockwise, n times
RECURSIVE QuarterTurns(_, _)
QuarterTurns(img, n) ==
    IF n = 0 THEN img
    ELSE LET t == QuarterTurns(img, n - 1)
         IN  MkImage(t.layout, t.h, t.w,
                     [y \in 0 .. t.w - 1 |-> [x \in 0 .. t.h - 1 |-> t.px[t.h - 1 - x][y]]])

C8_TileCanvas ==
    pc = "done" /\ op = "tile" /\ Decodable(input) =>
        \/ result.status = "err" /\ result.err = "EncodeError"
        \/ /\ result.status = "ok"
           /\ MulWide(input.img.w, args.cols).carry = 0
           /\ MulWide(input.img.h, args.rows).carry = 0
           /\ LET src == input.img
                  canvas == result.bytes.img
                  cols == U32Nat(args.cols)
                  rows == U32Nat(args.rows)
              IN  /\ canvas.w = src.w * cols
                  /\ canvas.h = src.h * rows
                  /\ \A col \in 0 .. cols - 1, row \in 0 .. rows - 1 :
                        \A i \in 0 .. src.w - 1, j \in 0 .. src.h - 1 :
                            canvas.px[row * src.h + j][col * src.w + i]
                                = blend(<<0, 0, 0, 0>>, src.px[j][i])

\* C9: extract_channel with a selector above 3 gives what selector 3 gives;
\* every output pixel is the one luminance value equal to the selected
\* channel of the input pixel, and the output has the input's size.
C9_ChannelClamped ==
    pc = "done" /\ op = "extract_channel" /\ result.status = "ok" =>
        LET sel == IF args.channel > 3 THEN 3 ELSE args.channel
            out == result.bytes.img
        IN  /\ out.w = input.img.w
            /\ out.h = input.img.h
            /\ \A y \in 0 .. out.h - 1, x \in 0 .. out.w - 1 :
                  out.px[y][x] = << input.img.px[y][x][sel + 1] >>

\* selector 5 on an image holding a pixel whose alpha differs from its green
C9_Witness ==
    /\ pc = "done"
    /\ op = "extract_channel"
    /\ result.status = "ok"
    /\ args.channel = 5
    /\ \E y \in 0 .. input.img.h - 1, x \in 0 .. input.img.w - 1 :
          /\ input.img.px[y][x][4] # input.img.px[y][x][2]
          /\ result.bytes.img.px[y][x] = << input.img.px[y][x][4] >>

\* the operations that take encoded bytes
BytesOps == TransformOps \cup { "convert_format", "get_pixel", "get_image_info" }

\* the names of the seven supported formats
SupportedNames ==
    { <<"p", "n", "g">>, <<"j", "p", "e", "g">>, <<"g", "i", "f">>, <<"w", "e", "b", "p">>,
      <<"b", "m", "p">>, <<"t", "i", "f", "f">>, <<"i", "c", "o">> }

\* a failure or an unrecognised value is answered with an error, never with
\* a value standing in for it
FailuresSurface ==
    pc = "done" =>
        /\ op \in BytesOps /\ ~Decodable(input) => result.status = "err"
        /\ op = "convert_format" /\ to_lowercase(args.target_format) \notin RecognisedNames
              => /\ result.status = "err"
                 /\ Decodable(input) => result.err = "UnsupportedFormatError"

\* C11: no operation replaces a failure or an unrecognised value by a
\* default (the resize filter and the rotate angle apart): bytes that do not
\* decode and format names that are not recognised give an error, and
\* get_image_info never succeeds with a placeholder format name such as
\* "unknown" when no supported format was detected.
C11_NoDefaultSubstitution ==
    /\ FailuresSurface
    /\ pc = "done" /\ op = "get_image_info" /\ result.status = "ok" =>
          /\ input.sig \in SupportedFormats
          /\ result.value.format \in SupportedNames

\* the filter each recognised name stands for, lanczos3 for every other
\* string
NamedFilter(name) ==
    LET l == to_lowercase(name) IN
    IF l = <<"n", "e", "a", "r", "e", "s", "t">> THEN "Nearest"
    ELSE IF l \in { <<"t", "r", "i", "a", "n", "g", "l", "e">>,
                    <<"b", "i", "l", "i", "n", "e", "a", "r">> } THEN "Triangle"
    ELSE IF l \in { <<"c", "a", "t", "m", "u", "l", "l", "r", "o", "m">>,
                    <<"c", "u", "b", "i", "c">> } THEN "CatmullRom"
    ELSE IF l = <<"g", "a", "u", "s", "s", "i", "a", "n">> THEN "Gaussian"
    ELSE filter_type(<<"l", "a", "n", "c", "z", "o", "s", "3">>)

\* C12: resize_with_filter never fails because of its filter argument: a
\* decodable input fails only in the encoder; the recognised names, in any
\* letter case, select their filter and every other string the filter of
\* lanczos3; the output is exactly width x height, every resampled pixel
\* produced by that filter.
C12_FilterFallback ==
    pc = "done" /\ op = "resize_with_filter" /\ Decodable(input) =>
        \/ result.status = "err" /\ result.err = "EncodeError"
        \/ /\ result.status = "ok"
           /\ LET out == result.bytes.img
              IN  /\ out.w = args.width
                  /\ out.h = args.height
                  /\ out.layout = input.img.layout
                  /\ IF args.width = input.img.w /\ args.height = input.img.h
                     THEN out.px = input.img.px
                     ELSE \A y \in 0 .. out.h - 1, x \in 0 .. out.w - 1 :
                            out.px[y][x] = << NamedFilter(args.filter), input.img.px >>

\* a resize with the unrecognised filter name "box" that resampled with
\* Lanczos3
C12_Witness ==
    /\ pc = "done"
    /\ op = "resize_with_filter"
    /\ args.filter = <<"b", "o", "x">>
    /\ result.status = "ok"
    /\ args.width = 2
    /\ input.img.w = 1
    /\ result.bytes.img.w = 2
    /\ result.bytes.img.h = args.height
    /\ args.height > 0
    /\ result.bytes.img.px[0][1][1] = "Lanczos3"

\* the operations that return encoded bytes
EncodingOps == TransformOps \cup { "convert_format", "create_blank" }

\* the buffer a finished call handed to encode
HandedToEncoder ==
    CASE op = "convert_format" -> input.img
      [] op = "create_blank" -> from_pixel(args.width, args.height, args.pixel)
      [] op = "seam_carve_width" -> IF args.seams_to_remove = 0 THEN input.img ELSE cur
      [] OTHER -> apply_transform(op, input.img, args).img

\* C13: every pixel buffer an operation hands to the encoder, and every one
\* it returns to the caller, has width > 0 and height > 0, whatever the
\* parameters (sizes, column and row counts, seam-carving targets of 0
\* included).
C13_BuffersNotEmpty ==
    pc = "done" /\ op \in EncodingOps /\ trace # <<>> /\ trace[Len(trace)] = "encode" =>
        /\ HandedToEncoder.w > 0 /\ HandedToEncoder.h > 0
        /\ result.status = "ok" => result.bytes.img.w > 0 /\ result.bytes.img.h > 0

(***************************************************************************)
(* Properties of the format names.                                         *)
(***************************************************************************)
\* C10: format_name and parse_format_name are a closed, case-insensitive
\* two-way mapping over the seven tags: parsing the name of a tag, in any
\* letter case, gives the tag; jpg and jpeg give JPEG, tif and tiff give
\* TIFF; every other string fails; and format_name never yields a string
\* that parse_format_name rejects.
C10_NamesClosed ==
    /\ pc = "done" /\ op = "format_to_string" =>
          /\ string_to_format(result.value).ok
          /\ args.fmt \in SupportedFormats =>
                \A v \in CaseVariants(result.value) : string_to_format(v) = Ok(args.fmt)
    /\ pc = "done" /\ op = "string_to_format" =>
          LET l == to_lowercase(args.s)
          IN  /\ result.status = "ok" <=> l \in RecognisedNames
              /\ result.status = "ok" =>
                    \/ format_to_string(result.value) = l
                    \/ result.value = "Jpeg" /\ l = <<"j", "p", "g">>
                    \/ result.value = "Tiff" /\ l = <<"t", "i", "f">>
              /\ result.status # "ok" => result = Failure("UnsupportedFormatError")

=============================================================================
